---- MODULE Spec2Model ----
(***************************************************************************)
(* Supply invariants of x/supply/keeper/invariants.go.                     *)
(*                                                                         *)
(* The state is the snapshot the checks read (accounts, block time, the    *)
(* stored Supplier record, the staking, fee-collection and distribution    *)
(* readings) together with the position and the locals of the invariant    *)
(* that is running.  The snapshot is chosen by Init and no action of the   *)
(* file under study writes it.                                             *)
(***************************************************************************)
EXTENDS Integers, Sequences, FiniteSets, TLC

VARIABLES
    accounts,               \* account store: address -> account
    blockTime,              \* ctx.BlockHeader().Time.Unix()
    supplierStore,          \* the Supplier record behind k.GetSupplier
    bondDenom,              \* stakingKeeper.BondDenom
    totalBonded,            \* stakingKeeper.TotalBondedTokens
    feeStore,               \* feeCollectionKeeper.GetCollectedFees
    feePoolCommunityCoins,  \* distributionKeeper.GetFeePoolCommunityCoins
    outstandingRewards,     \* distributionKeeper.GetTotalRewards
    down,                   \* the collaborator whose read fails, or "none"
    pc,                     \* position of the running invocation
    route,                  \* entry point of the running (or last) invocation
    reads,                  \* collaborators read by the running invocation
    yielded,                \* addresses IterateAccounts has yielded, in order
    supplier,               \* local: supplier
    circulatingAmount,      \* local: circulatingAmount
    modulesAmount,          \* local: modulesAmount
    initialVestingAmount,   \* local: initialVestingAmount
    remaining,              \* local: remaining
    realTotalSupply,        \* local: realTotalSupply
    err,                    \* value the running invocation returns
    prev                    \* route -> what its last finished invocation returned

snapshot == <<accounts, blockTime, supplierStore, bondDenom, totalBonded, feeStore,
              feePoolCommunityCoins, outstandingRewards, down>>

supLocals == <<yielded, supplier, circulatingAmount, modulesAmount, initialVestingAmount>>

totLocals == <<remaining, realTotalSupply>>

vars == <<snapshot, pc, route, reads, supLocals, totLocals, err, prev>>

----------------------------------------------------------------------------
(* Bounds of the model *)

\* largest amount of one denomination in one holding
MaxAmount == 1

\* the block time; vesting end times range from one before it to one after it
BlockTime == 1

\* a fractional amount counts units of 1/DecUnit of one token
DecUnit == 3

\* addresses of the account store, in the store's key order
Addresses == <<"a1", "a2">>

\* denominations, in the order Coins are sorted by
Denoms == <<"atom", "stake">>

AddressSet == {Addresses[i] : i \in 1..Len(Addresses)}

DenomSet == {Denoms[i] : i \in 1..Len(Denoms)}

----------------------------------------------------------------------------
(* sdk.Coins and sdk.DecCoins *)

DenomRank(d) == CHOOSE i \in 1..Len(Denoms) : Denoms[i] = d

NewCoin(d, n) == [denom |-> d, amount |-> n]

\* sdk.NewCoins of one coin: a zero coin leaves the empty set
NewCoins(c) == IF c.amount = 0 THEN <<>> ELSE <<c>>

\* Coins.Add: merge of two denomination-sorted sets, zero sums dropped
RECURSIVE Add(_, _)
Add(A, B) ==
    IF A = <<>> THEN B
    ELSE IF B = <<>> THEN A
    ELSE LET a == Head(A)
             b == Head(B)
         IN  IF a.denom = b.denom
             THEN NewCoins(NewCoin(a.denom, a.amount + b.amount)) \o Add(Tail(A), Tail(B))
             ELSE IF DenomRank(a.denom) < DenomRank(b.denom)
                  THEN <<a>> \o Add(Tail(A), B)
                  ELSE <<b>> \o Add(A, Tail(B))

\* Coins.IsEqual: same length and the same coin at every position
IsEqual(A, B) ==
    /\ Len(A) = Len(B)
    /\ \A i \in 1..Len(A) : A[i].denom = B[i].denom /\ A[i].amount = B[i].amount

\* DecCoins.TruncateDecimal: whole tokens and the change, coin by coin
RECURSIVE TruncateWhole(_)
TruncateWhole(D) ==
    IF D = <<>> THEN <<>>
    ELSE Add(NewCoins(NewCoin(Head(D).denom, Head(D).amount \div DecUnit)),
             TruncateWhole(Tail(D)))

RECURSIVE TruncateChange(_)
TruncateChange(D) ==
    IF D = <<>> THEN <<>>
    ELSE Add(NewCoins(NewCoin(Head(D).denom, Head(D).amount % DecUnit)),
             TruncateChange(Tail(D)))

TruncateDecimal(D) == [whole |-> TruncateWhole(D), change |-> TruncateChange(D)]

----------------------------------------------------------------------------
(* Errors *)

Nil == [kind |-> "nil", name |-> "", recorded |-> <<>>, computed |-> <<>>]

\* fmt.Errorf("<name>:\n\t<recorded>\n\t<computed>")
Errorf(name, recorded, computed) ==
    [kind |-> "error", name |-> name, recorded |-> recorded, computed |-> computed]

\* a collaborator that cannot answer panics; nothing in the file recovers
Panic(c) == [kind |-> "panic", name |-> c, recorded |-> <<>>, computed |-> <<>>]

None == [kind |-> "none", name |-> "", recorded |-> <<>>, computed |-> <<>>]

Routes == {"supplier", "total-supply", "all"}

----------------------------------------------------------------------------
(* SupplierInvariants *)

\* as VestingStep, an account counting as locked at its end time too
VestingStepInclusive(vesting, acc, time) ==
    IF acc.isVesting /\ time <= acc.endTime
    THEN Add(vesting, acc.originalVesting)
    ELSE vesting

\* the account's contribution to the still-vesting sum
VestingStep(vesting, acc, time) ==
    IF acc.isVesting /\ time < acc.endTime
    THEN Add(vesting, acc.originalVesting)
    ELSE vesting

\* as ModulesStep, the sum assigned instead of added to
ModulesStepAssign(modules, acc) ==
    IF acc.isModule THEN acc.coins ELSE modules

\* the account's holdings go to the modules' sum ...
ModulesStep(modules, acc) ==
    IF acc.isModule THEN Add(modules, acc.coins) ELSE modules

\* as CirculatingStep, vesting accounts left out of the circulating sum
CirculatingStepNoVesting(circulating, acc) ==
    IF acc.isModule \/ acc.isVesting THEN circulating ELSE Add(circulating, acc.coins)

\* ... or to the circulating sum (basic or vesting accounts)
CirculatingStep(circulating, acc) ==
    IF acc.isModule THEN circulating ELSE Add(circulating, acc.coins)

\* as SupplierChecks, without the comparison of the vesting supply
SupplierChecksNoVesting(sup, circulating, modules, vesting) ==
    IF ~IsEqual(sup.CirculatingSupply, circulating)
    THEN Errorf("circulating supply invariance", sup.CirculatingSupply, circulating)
    ELSE IF ~IsEqual(sup.ModulesSupply, modules)
    THEN Errorf("modules holdings supply invariance", sup.ModulesSupply, modules)
    ELSE Nil

\* as SupplierChecks, the vesting supply compared before the modules' supply
SupplierChecksVestingFirst(sup, circulating, modules, vesting) ==
    IF ~IsEqual(sup.CirculatingSupply, circulating)
    THEN Errorf("circulating supply invariance", sup.CirculatingSupply, circulating)
    ELSE IF ~IsEqual(sup.InitialVestingSupply, vesting)
    THEN Errorf("vesting supply invariance", sup.InitialVestingSupply, vesting)
    ELSE IF ~IsEqual(sup.ModulesSupply, modules)
    THEN Errorf("modules holdings supply invariance", sup.ModulesSupply, modules)
    ELSE Nil

\* the three comparisons, in the order the code makes them
SupplierChecks(sup, circulating, modules, vesting) ==
    IF ~IsEqual(sup.CirculatingSupply, circulating)
    THEN Errorf("circulating supply invariance", sup.CirculatingSupply, circulating)
    ELSE IF ~IsEqual(sup.ModulesSupply, modules)
    THEN Errorf("modules holdings supply invariance", sup.ModulesSupply, modules)
    ELSE IF ~IsEqual(sup.InitialVestingSupply, vesting)
    THEN Errorf("vesting supply invariance", sup.InitialVestingSupply, vesting)
    ELSE Nil

Range(s) == {s[i] : i \in 1..Len(s)}

Pending == AddressSet \ Range(yielded)

\* a read of collaborator c either answers or panics
Fails(c) == down = c

\* as SupplierBegin, the three sums declared outside the returned function
SupplierBeginStale ==
    /\ pc = "sup_start"
    /\ IF Fails("supplier")
       THEN /\ reads' = reads \cup {"supplier"}
            /\ err' = Panic("supplier")
            /\ pc' = "return"
            /\ UNCHANGED supLocals
       ELSE /\ supplier' = supplierStore
            /\ UNCHANGED <<circulatingAmount, modulesAmount, initialVestingAmount>>
            /\ yielded' = <<>>
            /\ reads' = reads \cup {"supplier", "accounts"}
            /\ IF Fails("accounts")
               THEN err' = Panic("accounts") /\ pc' = "return"
               ELSE err' = err /\ pc' = "sup_iter"
    /\ UNCHANGED <<snapshot, route, totLocals, prev>>

\* GetSupplier, the three declarations, and the start of IterateAccounts
SupplierBegin ==
    /\ pc = "sup_start"
    /\ IF Fails("supplier")
       THEN /\ reads' = reads \cup {"supplier"}
            /\ err' = Panic("supplier")
            /\ pc' = "return"
            /\ UNCHANGED supLocals
       ELSE /\ supplier' = supplierStore
            /\ circulatingAmount' = <<>>
            /\ modulesAmount' = <<>>
            /\ initialVestingAmount' = <<>>
            /\ yielded' = <<>>
            /\ reads' = reads \cup {"supplier", "accounts"}
            /\ IF Fails("accounts")
               THEN err' = Panic("accounts") /\ pc' = "return"
               ELSE err' = err /\ pc' = "sup_iter"
    /\ UNCHANGED <<snapshot, route, totLocals, prev>>

\* the callback IterateAccounts runs on one account; it returns false (go on)
AccountCallback(a) ==
    /\ pc = "sup_iter"
    /\ a \in Pending
    /\ initialVestingAmount' = VestingStep(initialVestingAmount, accounts[a], blockTime)
    /\ modulesAmount' = ModulesStep(modulesAmount, accounts[a])
    /\ circulatingAmount' = CirculatingStep(circulatingAmount, accounts[a])
    /\ yielded' = Append(yielded, a)
    /\ UNCHANGED <<snapshot, pc, route, reads, supplier, totLocals, err, prev>>

\* the comparisons after the iteration, and the return
SupplierReturn ==
    /\ pc = "sup_iter"
    /\ Pending = {}
    /\ err' = SupplierChecks(supplier, circulatingAmount, modulesAmount, initialVestingAmount)
    /\ pc' = "sup_done"
    /\ UNCHANGED <<snapshot, route, reads, supLocals, totLocals, prev>>

----------------------------------------------------------------------------
(* TotalSupplyInvariant *)

\* as Remaining, the two changes dropped
RemainingNone(remainingCommunityPool, remainingRewards) == <<>>

\* whole tokens in the sum of the two changes
Remaining(remainingCommunityPool, remainingRewards) ==
    TruncateDecimal(Add(remainingCommunityPool, remainingRewards)).whole

\* as RealTotalSupply, without the collected fees
RealTotalSupplyNoFees(sup, bondedSupply, collectedFees, communityPool, totalRewards, rem) ==
    Add(Add(Add(Add(Add(sup.CirculatingSupply, sup.ModulesSupply), bondedSupply),
                communityPool), totalRewards), rem)

\* the sum the stored total is compared with
RealTotalSupply(sup, bondedSupply, collectedFees, communityPool, totalRewards, rem) ==
    Add(Add(Add(Add(Add(Add(sup.CirculatingSupply, sup.ModulesSupply), bondedSupply),
                    collectedFees), communityPool), totalRewards), rem)

TotalSupplyCheck(sup, real) ==
    IF ~IsEqual(sup.TotalSupply, real)
    THEN Errorf("total supply invariance", sup.TotalSupply, real)
    ELSE Nil

\* the reads of TotalSupplyInvariant, in the order it makes them
TotalReads == <<"supplier", "staking", "fees", "community-pool", "rewards">>

\* the reads made up to and including the read of c
ReadsThrough(c) ==
    {TotalReads[i] : i \in 1..(CHOOSE j \in 1..Len(TotalReads) : TotalReads[j] = c)}

\* as TotalSupplyInvariant, a failed read recovered from and reported as no error
TotalSupplyInvariantRecovers ==
    /\ pc = "tot_start"
    /\ IF down \in Range(TotalReads)
       THEN /\ reads' = reads \cup ReadsThrough(down)
            /\ err' = Nil
            /\ pc' = "tot_done"
            /\ UNCHANGED <<supplier, totLocals>>
       ELSE LET bondedSupply == NewCoins(NewCoin(bondDenom, totalBonded))
                community == TruncateDecimal(feePoolCommunityCoins)
                rewards == TruncateDecimal(outstandingRewards)
                rem == Remaining(community.change, rewards.change)
                real == RealTotalSupply(supplierStore, bondedSupply, feeStore,
                                        community.whole, rewards.whole, rem)
            IN  /\ supplier' = supplierStore
                /\ remaining' = rem
                /\ realTotalSupply' = real
                /\ reads' = reads \cup Range(TotalReads)
                /\ err' = TotalSupplyCheck(supplierStore, real)
                /\ pc' = "tot_done"
    /\ UNCHANGED <<snapshot, route, yielded, circulatingAmount, modulesAmount,
                   initialVestingAmount, prev>>

\* the five reads, the two truncations, the sum and the comparison
TotalSupplyInvariant ==
    /\ pc = "tot_start"
    /\ IF down \in Range(TotalReads)
       THEN /\ reads' = reads \cup ReadsThrough(down)
            /\ err' = Panic(down)
            /\ pc' = "return"
            /\ UNCHANGED <<supplier, totLocals>>
       ELSE LET bondedSupply == NewCoins(NewCoin(bondDenom, totalBonded))
                community == TruncateDecimal(feePoolCommunityCoins)
                rewards == TruncateDecimal(outstandingRewards)
                rem == Remaining(community.change, rewards.change)
                real == RealTotalSupply(supplierStore, bondedSupply, feeStore,
                                        community.whole, rewards.whole, rem)
            IN  /\ supplier' = supplierStore
                /\ remaining' = rem
                /\ realTotalSupply' = real
                /\ reads' = reads \cup Range(TotalReads)
                /\ err' = TotalSupplyCheck(supplierStore, real)
                /\ pc' = "tot_done"
    /\ UNCHANGED <<snapshot, route, yielded, circulatingAmount, modulesAmount,
                   initialVestingAmount, prev>>

----------------------------------------------------------------------------
(* AllInvariants, and the callers *)

\* as AllSupplierReturned, the total supply checked whatever the first check said
AllSupplierReturnedAlways ==
    /\ pc = "sup_done"
    /\ route = "all"
    /\ pc' = "tot_start"
    /\ UNCHANGED <<snapshot, route, reads, supLocals, totLocals, err, prev>>

\* err := SupplierInvariants(...)(ctx); if err != nil { return err }
AllSupplierReturned ==
    /\ pc = "sup_done"
    /\ route = "all"
    /\ pc' = IF err # Nil THEN "return" ELSE "tot_start"
    /\ UNCHANGED <<snapshot, route, reads, supLocals, totLocals, err, prev>>

\* err = TotalSupplyInvariant(...)(ctx); return err, or nil
AllTotalReturned ==
    /\ pc = "tot_done"
    /\ route = "all"
    /\ pc' = "return"
    /\ UNCHANGED <<snapshot, route, reads, supLocals, totLocals, err, prev>>

\* a registered route, or AllInvariants, is called
Invoke(r) ==
    /\ pc = "idle"
    /\ route' = r
    /\ reads' = {}
    /\ err' = Nil
    /\ pc' = IF r = "total-supply" THEN "tot_start" ELSE "sup_start"
    /\ UNCHANGED <<snapshot, supLocals, totLocals, prev>>

Returning ==
    \/ pc = "return"
    \/ pc = "sup_done" /\ route = "supplier"
    \/ pc = "tot_done" /\ route = "total-supply"

\* the caller receives err
Return ==
    /\ Returning
    /\ pc' = "idle"
    /\ prev' = [prev EXCEPT ![route] = err]
    /\ UNCHANGED <<snapshot, route, reads, supLocals, totLocals, err>>

----------------------------------------------------------------------------
(* What the sums are, denomination by denomination *)

\* Coins.AmountOf
RECURSIVE AmountOf(_, _)
AmountOf(C, d) ==
    IF C = <<>> THEN 0
    ELSE (IF Head(C).denom = d THEN Head(C).amount ELSE 0) + AmountOf(Tail(C), d)

RECURSIVE SumOver(_, _)
SumOver(S, f) ==
    IF S = {} THEN 0
    ELSE LET x == CHOOSE y \in S : TRUE IN f[x] + SumOver(S \ {x}, f)

RECURSIVE CoinsUpTo(_, _)
CoinsUpTo(f, n) ==
    IF n = 0 THEN <<>>
    ELSE CoinsUpTo(f, n - 1)
         \o (IF f[Denoms[n]] = 0 THEN <<>> ELSE <<NewCoin(Denoms[n], f[Denoms[n]])>>)

\* the coin set holding f[d] of every denomination d
ToCoins(f) == CoinsUpTo(f, Len(Denoms))

\* the holdings of the accounts of S in population accs
HeldBy(accs, S) ==
    ToCoins([d \in DenomSet |-> SumOver(S, [a \in S |-> AmountOf(accs[a].coins, d)])])

\* the original vesting of the accounts of S in population accs
VestedIn(accs, S) ==
    ToCoins([d \in DenomSet |->
                SumOver(S, [a \in S |-> AmountOf(accs[a].originalVesting, d)])])

ModuleOwned(accs) == {a \in AddressSet : accs[a].isModule}

StillLocked(accs, time) ==
    {a \in AddressSet : accs[a].isVesting /\ accs[a].endTime > time}

\* every token of the chain in DecUnit-ths, truncated to whole tokens once
ExactTotal(C, M, bd, bonded, fees, community, rewards) ==
    ToCoins([d \in DenomSet |->
        ((AmountOf(C, d) + AmountOf(M, d) + (IF d = bd THEN bonded ELSE 0)
            + AmountOf(fees, d)) * DecUnit
         + AmountOf(community, d) + AmountOf(rewards, d)) \div DecUnit])

----------------------------------------------------------------------------
(* Snapshots *)

\* a holding of at most one denomination
Holdings ==
    {<<>>} \cup {<<NewCoin(d, n)>> : d \in DenomSet, n \in 1..MaxAmount}

\* an original vesting: MaxAmount of one denomination
Vestings == {<<NewCoin(d, MaxAmount)>> : d \in DenomSet}

BasicAccount(c, m) ==
    [coins |-> c, isModule |-> m, isVesting |-> FALSE, originalVesting |-> <<>>,
     endTime |-> 0]

VestingAccount(c, m, o, e) ==
    [coins |-> c, isModule |-> m, isVesting |-> TRUE, originalVesting |-> o,
     endTime |-> e]

AccountSet ==
    {BasicAccount(c, m) : c \in Holdings, m \in BOOLEAN}
    \cup {VestingAccount(c, m, o, e) :
            c \in Holdings, m \in BOOLEAN, o \in Vestings,
            e \in (BlockTime - 1)..(BlockTime + 1)}

\* a recorded value: the true one, one token too many, or one denomination short
Recordings(x) ==
    {x, Add(x, <<NewCoin(Denoms[1], 1)>>)} \cup (IF x = <<>> THEN {} ELSE {Tail(x)})

\* fractional holdings below two tokens of each denomination
DecHoldings ==
    {ToCoins(f) : f \in [DenomSet -> 0..(2 * DecUnit - 1)]}

InitProcess ==
    /\ pc = "idle"
    /\ route = "none"
    /\ reads = {}
    /\ yielded = <<>>
    /\ supplier = [CirculatingSupply |-> <<>>, ModulesSupply |-> <<>>,
                   InitialVestingSupply |-> <<>>, TotalSupply |-> <<>>]
    /\ circulatingAmount = <<>>
    /\ modulesAmount = <<>>
    /\ initialVestingAmount = <<>>
    /\ remaining = <<>>
    /\ realTotalSupply = <<>>
    /\ err = Nil
    /\ prev = [r \in Routes |-> None]

\* the supplier route over every small population, the pools empty
InitSupplier ==
    /\ accounts \in [AddressSet -> AccountSet]
    /\ blockTime = BlockTime
    /\ bondDenom = Denoms[Len(Denoms)]
    /\ totalBonded = 0
    /\ feeStore = <<>>
    /\ feePoolCommunityCoins = <<>>
    /\ outstandingRewards = <<>>
    /\ down = "none"
    /\ supplierStore \in
         {[CirculatingSupply |-> c, ModulesSupply |-> m, InitialVestingSupply |-> v,
           TotalSupply |-> Add(c, m)] :
            c \in Recordings(HeldBy(accounts, AddressSet \ ModuleOwned(accounts))),
            m \in Recordings(HeldBy(accounts, ModuleOwned(accounts))),
            v \in Recordings(VestedIn(accounts, StillLocked(accounts, blockTime)))}
    /\ InitProcess

NextSupplier ==
    \/ Invoke("supplier")
    \/ SupplierBegin
    \/ \E a \in AddressSet : AccountCallback(a)
    \/ SupplierReturn
    \/ Return

SpecSupplier == InitSupplier /\ [][NextSupplier]_vars

\* a fractional holding of at most one denomination, below two tokens
DecSingles ==
    {<<>>} \cup {<<NewCoin(d, n)>> : d \in DenomSet, n \in 1..(2 * DecUnit - 1)}

NoAccounts == [a \in AddressSet |-> BasicAccount(<<>>, FALSE)]

\* the total-supply route over the pools, no account holding anything
InitTotal ==
    /\ accounts = NoAccounts
    /\ blockTime = BlockTime
    /\ bondDenom = Denoms[Len(Denoms)]
    /\ totalBonded \in 0..MaxAmount
    /\ feeStore \in {<<>>, <<NewCoin(Denoms[Len(Denoms)], MaxAmount)>>}
    /\ feePoolCommunityCoins \in DecHoldings
    /\ outstandingRewards \in DecSingles
    /\ down = "none"
    /\ supplierStore \in
         UNION {{[CirculatingSupply |-> c, ModulesSupply |-> m,
                  InitialVestingSupply |-> <<>>, TotalSupply |-> t] :
                    t \in Recordings(ExactTotal(c, m, bondDenom, totalBonded, feeStore,
                                                feePoolCommunityCoins, outstandingRewards))} :
                c \in {<<>>, <<NewCoin(Denoms[1], MaxAmount)>>},
                m \in {<<>>, <<NewCoin(Denoms[Len(Denoms)], MaxAmount)>>}}
    /\ InitProcess

NextTotal ==
    \/ Invoke("total-supply")
    \/ TotalSupplyInvariant
    \/ Return

SpecTotal == InitTotal /\ [][NextTotal]_vars

Collaborators == {"supplier", "accounts", "staking", "fees", "community-pool", "rewards"}

\* one account of each kind
SmallAccounts ==
    {BasicAccount(<<NewCoin(Denoms[1], MaxAmount)>>, FALSE),
     BasicAccount(<<NewCoin(Denoms[Len(Denoms)], MaxAmount)>>, TRUE),
     VestingAccount(<<NewCoin(Denoms[1], 1)>>, FALSE,
                    <<NewCoin(Denoms[1], MaxAmount)>>, BlockTime + 1)}

\* the true value, or one token too many
Miscount(x) == {x, Add(x, <<NewCoin(Denoms[1], 1)>>)}

\* one change short of a token, or nothing
DecChanges == {<<>>, <<NewCoin(Denoms[1], DecUnit - 1)>>}

\* every entry point, over a few snapshots, any one collaborator failing
Init ==
    /\ accounts \in [AddressSet -> SmallAccounts]
    /\ blockTime = BlockTime
    /\ bondDenom = Denoms[Len(Denoms)]
    /\ totalBonded \in {0, MaxAmount}
    /\ feeStore = <<>>
    /\ feePoolCommunityCoins \in DecChanges
    /\ outstandingRewards \in DecChanges
    /\ down \in Collaborators \cup {"none"}
    /\ supplierStore \in
         UNION {{[CirculatingSupply |-> c, ModulesSupply |-> m,
                  InitialVestingSupply |-> v, TotalSupply |-> t] :
                    t \in Miscount(ExactTotal(c, m, bondDenom, totalBonded, feeStore,
                                              feePoolCommunityCoins, outstandingRewards))} :
                c \in Miscount(HeldBy(accounts, AddressSet \ ModuleOwned(accounts))),
                m \in Miscount(HeldBy(accounts, ModuleOwned(accounts))),
                v \in Miscount(VestedIn(accounts, StillLocked(accounts, blockTime)))}
    /\ InitProcess

Next ==
    \/ \E r \in Routes : Invoke(r)
    \/ SupplierBegin
    \/ \E a \in AddressSet : AccountCallback(a)
    \/ SupplierReturn
    \/ TotalSupplyInvariant
    \/ AllSupplierReturned
    \/ AllTotalReturned
    \/ Return

Spec == Init /\ [][Next]_vars

----------------------------------------------------------------------------
(* Properties of SupplierInvariants *)

NotModuleOwned(accs) == AddressSet \ ModuleOwned(accs)

CirculatingSum == HeldBy(accounts, NotModuleOwned(accounts))

ModulesSum == HeldBy(accounts, ModuleOwned(accounts))

LockedSum == VestedIn(accounts, StillLocked(accounts, blockTime))

\* SupplierInvariants has compared and is about to return err
SupplierDecided == pc = "sup_done"

\* C1: SupplierInvariants returns nil if and only if the stored CirculatingSupply,
\* ModulesSupply and InitialVestingSupply each equal, coin for coin, the holdings of
\* the accounts no module owns, the holdings of the module accounts, and the
\* original vesting of the accounts still locked.
C1_SupplierSucceedsIffAllEqual ==
    SupplierDecided =>
        ((err = Nil) <=> /\ supplierStore.CirculatingSupply = CirculatingSum
                         /\ supplierStore.ModulesSupply = ModulesSum
                         /\ supplierStore.InitialVestingSupply = LockedSum)

C1_Witness ==
    /\ SupplierDecided
    /\ err = Nil
    /\ circulatingAmount # <<>>
    /\ modulesAmount # <<>>
    /\ initialVestingAmount # <<>>

\* C4: when the iteration is over, circulatingAmount holds exactly the holdings of
\* the accounts no module owns and modulesAmount exactly those of the module
\* accounts, vesting or not, so that the two together hold every account's holdings.
C4_HoldingsPartitioned ==
    SupplierDecided =>
        /\ circulatingAmount = CirculatingSum
        /\ modulesAmount = ModulesSum
        /\ Add(circulatingAmount, modulesAmount) = HeldBy(accounts, AddressSet)

C4_Witness ==
    /\ SupplierDecided
    /\ \E a, b \in AddressSet :
        /\ accounts[a].isVesting /\ accounts[a].isModule /\ accounts[a].coins # <<>>
        /\ accounts[b].isVesting /\ ~accounts[b].isModule /\ accounts[b].coins # <<>>
        /\ accounts[a].coins # accounts[b].coins

\* C5: when the iteration is over, initialVestingAmount is the sum of the original
\* vesting of exactly the vesting accounts whose end time is after the block time,
\* module-owned or not; an account at or past its end time adds nothing.
C5_InitialVestingOfLocked ==
    SupplierDecided => initialVestingAmount = LockedSum

C5_Witness ==
    /\ SupplierDecided
    /\ \E a, b \in AddressSet :
        /\ accounts[a].isVesting /\ accounts[a].endTime = blockTime
        /\ accounts[b].isVesting /\ accounts[b].isModule /\ accounts[b].endTime > blockTime
    /\ initialVestingAmount # <<>>

\* the name of the first of the three fields, in the order CirculatingSupply,
\* ModulesSupply, InitialVestingSupply, that differs from its sum
FirstMismatch ==
    IF supplierStore.CirculatingSupply # CirculatingSum
    THEN Errorf("circulating supply invariance", supplierStore.CirculatingSupply,
                CirculatingSum)
    ELSE IF supplierStore.ModulesSupply # ModulesSum
    THEN Errorf("modules holdings supply invariance", supplierStore.ModulesSupply,
                ModulesSum)
    ELSE Errorf("vesting supply invariance", supplierStore.InitialVestingSupply,
                LockedSum)

\* C6: an error of SupplierInvariants names the first field, in the order
\* CirculatingSupply, ModulesSupply, InitialVestingSupply, whose stored value differs
\* from its sum, and carries that stored value and that sum.
C6_FailureNamesFirstMismatch ==
    (SupplierDecided /\ err # Nil) => err = FirstMismatch

C6_Witness ==
    /\ SupplierDecided
    /\ err.name = "modules holdings supply invariance"
    /\ err.recorded # <<>>
    /\ err.computed # <<>>
    /\ supplierStore.InitialVestingSupply # LockedSum

\* the three sums after the callback has run on the first n addresses in store order
RECURSIVE InStoreOrder(_)
InStoreOrder(n) ==
    IF n = 0 THEN [circulating |-> <<>>, modules |-> <<>>, vesting |-> <<>>]
    ELSE LET p == InStoreOrder(n - 1)
             acc == accounts[Addresses[n]]
         IN  [circulating |-> CirculatingStep(p.circulating, acc),
              modules |-> ModulesStep(p.modules, acc),
              vesting |-> VestingStep(p.vesting, acc, blockTime)]

\* C7: in whatever order IterateAccounts yielded the accounts, the three sums and the
\* error returned are those of the iteration in store order.
C7_OrderIndependent ==
    SupplierDecided =>
        LET s == InStoreOrder(Len(Addresses))
        IN  /\ circulatingAmount = s.circulating
            /\ modulesAmount = s.modules
            /\ initialVestingAmount = s.vesting
            /\ err = SupplierChecks(supplierStore, s.circulating, s.modules, s.vesting)

C7_Witness ==
    /\ SupplierDecided
    /\ yielded # Addresses
    /\ Len(modulesAmount) = Len(Denoms)
    /\ \A a \in AddressSet : accounts[a].isModule /\ accounts[a].isVesting

----------------------------------------------------------------------------
(* Properties of TotalSupplyInvariant *)

\* TotalSupplyInvariant has compared and is about to return err
TotalDecided == pc = "tot_done"

BondedOf(d) == IF d = bondDenom THEN totalBonded ELSE 0

\* the whole tokens of the pool, the change of the pool, in DecUnit-ths
WholeOf(pool, d) == AmountOf(pool, d) \div DecUnit

ChangeOf(pool, d) == AmountOf(pool, d) % DecUnit

\* whole tokens in the sum of the two pools' changes
CarryOf(d) ==
    (ChangeOf(feePoolCommunityCoins, d) + ChangeOf(outstandingRewards, d)) \div DecUnit

\* CirculatingSupply + ModulesSupply + bonded + fees + communityWhole + rewardsWhole
\* + carry, denomination by denomination
Reconstructed ==
    ToCoins([d \in DenomSet |->
        AmountOf(supplierStore.CirculatingSupply, d)
        + AmountOf(supplierStore.ModulesSupply, d)
        + BondedOf(d)
        + AmountOf(feeStore, d)
        + WholeOf(feePoolCommunityCoins, d)
        + WholeOf(outstandingRewards, d)
        + CarryOf(d)])

\* C2: TotalSupplyInvariant returns nil if and only if the stored TotalSupply equals,
\* coin for coin, CirculatingSupply + ModulesSupply + bonded + fees + the whole tokens
\* of the community pool + the whole tokens of the rewards + the whole tokens of the
\* two changes together; otherwise its error carries the stored TotalSupply and that
\* sum.
C2_TotalSucceedsIffReconstructed ==
    TotalDecided =>
        /\ (err = Nil) <=> (supplierStore.TotalSupply = Reconstructed)
        /\ err # Nil =>
             err = Errorf("total supply invariance", supplierStore.TotalSupply,
                          Reconstructed)

C2_Witness ==
    /\ TotalDecided
    /\ err.kind = "error"
    /\ err.recorded # <<>>
    /\ Len(err.computed) = Len(Denoms)
    /\ totalBonded > 0
    /\ feeStore # <<>>
    /\ remaining # <<>>

\* every token counted, in DecUnit-ths, the pools with their fractions
ExactUnits(d) ==
    (AmountOf(supplierStore.CirculatingSupply, d)
     + AmountOf(supplierStore.ModulesSupply, d)
     + BondedOf(d)
     + AmountOf(feeStore, d)) * DecUnit
    + AmountOf(feePoolCommunityCoins, d)
    + AmountOf(outstandingRewards, d)

\* C3: for every denomination, the sum TotalSupplyInvariant compares with is the
\* integer part of the exact sum taken with the pools' fractions: what is dropped is
\* at least zero and less than one token, and the whole tokens recovered from the two
\* changes are one token when the changes sum to a token or more and none otherwise.
C3_TruncationLosesLessThanOne ==
    TotalDecided =>
        \A d \in DenomSet :
            /\ AmountOf(realTotalSupply, d) * DecUnit <= ExactUnits(d)
            /\ ExactUnits(d) < (AmountOf(realTotalSupply, d) + 1) * DecUnit
            /\ AmountOf(remaining, d) =
                 (IF ChangeOf(feePoolCommunityCoins, d) + ChangeOf(outstandingRewards, d)
                        >= DecUnit
                  THEN 1 ELSE 0)

C3_Witness ==
    /\ TotalDecided
    /\ \E d \in DenomSet :
        /\ ChangeOf(feePoolCommunityCoins, d) + ChangeOf(outstandingRewards, d) > DecUnit
        /\ AmountOf(remaining, d) = 1
        /\ ExactUnits(d) > AmountOf(realTotalSupply, d) * DecUnit

----------------------------------------------------------------------------
(* Properties of every entry point *)

\* C8: no step of any invariant changes the accounts, the block time, the Supplier
\* record or a pool reading, and an entry point that has returned before is about
\* to return the same value again.
C8_ReadOnlyAndIdempotent ==
    [][/\ snapshot' = snapshot
       /\ (Returning' /\ prev'[route'] # None) => err' = prev'[route']]_vars

C8_Witness ==
    /\ Returning
    /\ prev[route] # None
    /\ err = prev[route]
    /\ err.kind = "error"
    /\ route = "supplier"
    /\ prev["all"] # None

TotalOnlyReads == {"staking", "fees", "community-pool", "rewards"}

\* C10: AllInvariants returns what the supplier route returns when that is not nil,
\* then without any read of the staking, fee or distribution keepers, and otherwise
\* what the total-supply route returns; so it returns nil only when both do.
C10_AllRunsSupplierFirst ==
    (Returning /\ route = "all" /\ prev["supplier"] # None /\ prev["total-supply"] # None)
        => /\ err = (IF prev["supplier"] # Nil THEN prev["supplier"]
                     ELSE prev["total-supply"])
           /\ prev["supplier"] # Nil => reads \cap TotalOnlyReads = {}

C10_Witness ==
    /\ Returning
    /\ route = "all"
    /\ prev["supplier"].kind = "error"
    /\ prev["total-supply"].kind = "error"
    /\ err = prev["supplier"]

====
